---- MODULE Spec2Model ----
(***************************************************************************)
(* A state-machine model of arc_unpack.py: the romfs pack extractor, the   *)
(* song/pack converter, the hash-named storage mover and the LiteDB        *)
(* subcommand calls, in script order.                                      *)
(*                                                                         *)
(* Representation.  A file path is a record [dir, stem, suffix]: dir is    *)
(* the sequence of directory names, and stem \o suffix is Path.name, so    *)
(* Path.suffix is read off the record.  A file tree is a function from     *)
(* paths to byte sequences.  An optional JSON key is a sequence of length  *)
(* 0 or 1.  Only the record fields that decide file names, identifiers,    *)
(* ids and lookups are kept (titles, bpm text and dates are left out).     *)
(***************************************************************************)
EXTENDS Integers, Sequences, FiniteSets, TLC

VARIABLES
    pc,                \* position in the script
    abort_reason,      \* the uncaught exception / sys.exit, "" when none
    env,               \* what is on disk and in the database at start
    staged,            \* ./extracted_romfs: path -> bytes
    final,             \* ./final: path -> bytes (Level/, Pack/, storage/)
    dirs,              \* the directories of ./final that exist
    pack_list,         \* the sorted *.pack list of lines 119-122
    pack_ix,           \* position of the extraction loop, then of the pack loop
    song_list,         \* json.load of the staged songlist
    packlist_doc,      \* json.load of the staged packlist (second pack_list)
    song_ix,           \* position of the song loop
    diff_ix,           \* position of the difficulty loop; 0 outside a song
    level_count,
    pack_count,
    i,
    charts,
    background_paths,
    converted_songs,
    converted_packs,
    converted_files,
    level_identifiers,
    type_ix,           \* position in ['Level', 'Pack'] of the move loop
    visited,           \* the files the glob has yielded, with the bytes read
    cur_dir,           \* the directory the glob is listing
    ins_ix,            \* position of the current insertion loop
    calls              \* every LiteDB subprocess run, in order

vars == <<pc, abort_reason, env, staged, final, dirs, pack_list, pack_ix,
          song_list, packlist_doc, song_ix, diff_ix, level_count, pack_count,
          i, charts, background_paths, converted_songs, converted_packs,
          converted_files, level_identifiers, type_ix, visited, cur_dir,
          ins_ix, calls>>

-----------------------------------------------------------------------------
(* Bounds of the explored inputs *)

MaxOffset == 3         \* index entries have Offset in 0..MaxOffset
MaxLength == 2         \* index entries have Length in 0..MaxLength
MaxCount == 1          \* PackCount / LevelCount answer 0..MaxCount

-----------------------------------------------------------------------------
(* Program constants *)

DIFFICULTY_NAMES == <<"Past", "Present", "Future", "Beyond">>
DIFFICULTY_COLORS == <<"#3A6B78FF", "#566947FF", "#482B54FF", "#7C1C30FF">>

TYPE_NAMES == <<"Level", "Pack">>

-----------------------------------------------------------------------------
(* Paths and trees *)

P(dir, stem, suffix) == [dir |-> dir, stem |-> stem, suffix |-> suffix]

Name(p) == p.stem \o p.suffix

RECURSIVE JoinPosix(_)
JoinPosix(d) ==
    IF d = <<>> THEN "" ELSE Head(d) \o "/" \o JoinPosix(Tail(d))

AsPosix(p) == JoinPosix(p.dir) \o Name(p)

Exists(tree, p) == p \in DOMAIN tree

WriteFile(tree, p, bytes) ==
    [q \in DOMAIN tree \cup {p} |-> IF q = p THEN bytes ELSE tree[q]]

RemoveFiles(tree, gone) == [q \in DOMAIN tree \ gone |-> tree[q]]

EmptyTree == [q \in {} |-> <<>>]

Min(a, b) == IF a < b THEN a ELSE b

\* pack.seek(Offset); pack.read(Length): a read past the end is short
ReadAt(bytes, offset, length) ==
    SubSeq(bytes, offset + 1, Min(offset + length, Len(bytes)))

\* list[k] of Python: a negative k counts from the end
PyInRange(list, k) == -Len(list) <= k /\ k < Len(list)
PyIndex(list, k) == IF k >= 0 THEN list[k + 1] ELSE list[Len(list) + k + 1]

\* sha1(bytes).hexdigest(): one digest per byte string
RECURSIVE Digits(_)
Digits(bytes) ==
    IF bytes = <<>> THEN "" ELSE ToString(Head(bytes)) \o Digits(Tail(bytes))

Sha1Hex(bytes) == "h" \o Digits(bytes)

-----------------------------------------------------------------------------
(* Fixed locations *)

song_list_path == P(<<"not_audio_or_images", "songs">>, "songlist", "")
pack_list_path == P(<<"not_audio_or_images", "songs">>, "packlist", "")
charts_root_path == <<"charts", "songs">>
audio_root_path == <<"Fallback", "songs">>
jacket_root_path == <<"jackets_large", "songs">>
background_root_path == <<"not_audio", "img", "bg">>
pack_cover_root_path == <<"packs", "songs", "pack">>
singles_cover_path ==
    P(<<"not_large_png", "layouts", "songselect">>, "folder_singles", ".png")
storage_root_path == <<"storage">>

-----------------------------------------------------------------------------
(* The LiteDB helper process *)

Call(args, returncode) == [args |-> args, returncode |-> returncode]

\* LiteDB.subcommand: run, wait, and go on whatever the exit status
Subcommand(subcommand, content) ==
    calls' = Append(calls,
                    Call(<<subcommand, content>>,
                         IF subcommand \in env.db.failing THEN 1 ELSE 0))

\* LiteDB.level_count / pack_count: int() of the output raises on garbage
CountParses(query) == query \notin env.db.garbled

Abort(reason) == pc' = "aborted" /\ abort_reason' = reason

-----------------------------------------------------------------------------
(* Lines 92-122: checks, folders, database copy, pack list *)

PackNameOrder == <<"a", "b">>

\* pack_list.sort() of the globbed *.pack files
SortedPacks(romfs) ==
    LET pick(k) == CHOOSE f \in romfs : f.stem = PackNameOrder[k]
        RECURSIVE from(_)
        from(k) ==
            IF k > Len(PackNameOrder) THEN <<>>
            ELSE IF \E f \in romfs : f.stem = PackNameOrder[k]
                 THEN <<pick(k)>> \o from(k + 1)
                 ELSE from(k + 1)
    IN from(1)

\* the check without the fallback on an extracted romfs
RomfsMissingNoFallback == ~env.romfs_exists

\* lines 99-104: no romfs and no extracted romfs to fall back on
RomfsMissing == ~env.romfs_exists /\ ~env.staged_exists

Prepare ==
    /\ pc = "start"
    /\ IF ~env.litedb_exists
       THEN Abort("ArcUnpack.LiteDB not found") /\ UNCHANGED pack_list
       ELSE IF RomfsMissing
       THEN Abort("Input romfs not found") /\ UNCHANGED pack_list
       ELSE IF ~env.db_exists /\ ~env.db_input_exists
       THEN Abort("FileNotFoundError") /\ UNCHANGED pack_list
       ELSE /\ pack_list' = SortedPacks(IF env.romfs_exists THEN env.romfs ELSE {})
            /\ pc' = "extract"
            /\ UNCHANGED abort_reason
    /\ UNCHANGED <<env, staged, final, dirs, pack_ix, song_list, packlist_doc,
                   song_ix, diff_ix, level_count, pack_count, i, charts,
                   background_paths, converted_songs, converted_packs,
                   converted_files, level_identifiers, type_ix, visited,
                   cur_dir, ins_ix, calls>>

-----------------------------------------------------------------------------
(* Lines 127-146: extraction *)

EntryPath(group, ordered_entry) ==
    P(<<group.Name>> \o ordered_entry.OriginalFilename.dir,
      ordered_entry.OriginalFilename.stem,
      ordered_entry.OriginalFilename.suffix)

RECURSIVE ExtractEntries(_, _, _, _)
ExtractEntries(tree, bytes, group, entries) ==
    IF entries = <<>> THEN tree
    ELSE ExtractEntries(
             WriteFile(tree, EntryPath(group, Head(entries)),
                       ReadAt(bytes, Head(entries).Offset, Head(entries).Length)),
             bytes, group, Tail(entries))

RECURSIVE ExtractGroups(_, _, _)
ExtractGroups(tree, bytes, groups) ==
    IF groups = <<>> THEN tree
    ELSE ExtractGroups(
             ExtractEntries(tree, bytes, Head(groups), Head(groups).OrderedEntries),
             bytes, Tail(groups))

ExtractPack ==
    /\ pc = "extract"
    /\ pack_ix <= Len(pack_list)
    /\ LET pack == pack_list[pack_ix] IN
       IF pack.index = <<>>
       THEN Abort("FileNotFoundError") /\ UNCHANGED <<staged, pack_ix>>
       ELSE /\ staged' = ExtractGroups(staged, pack.bytes, pack.index[1].Groups)
            /\ pack_ix' = pack_ix + 1
            /\ UNCHANGED <<pc, abort_reason>>
    /\ UNCHANGED <<env, final, dirs, pack_list, song_list, packlist_doc,
                   song_ix, diff_ix, level_count, pack_count, i, charts,
                   background_paths, converted_songs, converted_packs,
                   converted_files, level_identifiers, type_ix, visited,
                   cur_dir, ins_ix, calls>>

-----------------------------------------------------------------------------
(* Lines 148-164: LevelCount, song list *)

\* ids that start at the count itself
FirstIdIsCount(count) == count

\* lines 164 and 257: the id of the first record
FirstId(count) == count + 1

BeginSongs ==
    /\ pc = "extract"
    /\ pack_ix > Len(pack_list)
    /\ calls' = Append(calls, Call(<<"LevelCount">>, 0))
    /\ IF ~CountParses("LevelCount")
       THEN Abort("ValueError")
            /\ UNCHANGED <<level_count, song_list, i, song_ix>>
       ELSE IF ~Exists(staged, song_list_path)
       THEN Abort("FileNotFoundError")
            /\ level_count' = env.db.levels
            /\ UNCHANGED <<song_list, i, song_ix>>
       ELSE /\ level_count' = env.db.levels
            /\ song_list' = env.songlist
            /\ i' = FirstId(env.db.levels)
            /\ song_ix' = 1
            /\ pc' = "songs"
            /\ UNCHANGED abort_reason
    /\ UNCHANGED <<env, staged, final, dirs, pack_list, pack_ix, packlist_doc,
                   diff_ix, pack_count, charts, background_paths,
                   converted_songs, converted_packs, converted_files,
                   level_identifiers, type_ix, visited, cur_dir, ins_ix>>

-----------------------------------------------------------------------------
(* Lines 165-247: songs *)

OriginalId(song) ==
    IF song.remote_dl # <<>> /\ song.remote_dl[1]
    THEN "dl_" \o song.id
    ELSE song.id

SongNewId(song) == song.set \o "." \o song.id

SongRootPath(song) == <<"Level", SongNewId(song)>>

Into(dir, p) == P(dir, p.stem, p.suffix)

CurrentSong == song_list.songs[song_ix]

SongBegin ==
    /\ pc = "songs"
    /\ diff_ix = 0
    /\ song_ix <= Len(song_list.songs)
    /\ LET song == CurrentSong
           audio == P(audio_root_path \o <<OriginalId(song)>>, "base", ".ogg")
           jacket == P(jacket_root_path \o <<OriginalId(song)>>, "base", ".jpg")
           root == SongRootPath(song)
           with_audio == WriteFile(final, Into(root, audio), staged[audio])
       IN
       /\ dirs' = dirs \cup {"Level"}
       /\ IF ~Exists(staged, audio)
          THEN Abort("FileNotFoundError")
               /\ UNCHANGED <<final, charts, background_paths, diff_ix>>
          ELSE IF ~Exists(staged, jacket)
          THEN Abort("FileNotFoundError")
               /\ final' = with_audio
               /\ UNCHANGED <<charts, background_paths, diff_ix>>
          ELSE /\ final' = WriteFile(with_audio, Into(root, jacket), staged[jacket])
               /\ charts' = <<>>
               /\ background_paths' = <<>>
               /\ diff_ix' = 1
               /\ UNCHANGED <<pc, abort_reason>>
    /\ UNCHANGED <<env, staged, pack_list, pack_ix, song_list, packlist_doc,
                   song_ix, level_count, pack_count, i, converted_songs,
                   converted_packs, converted_files, level_identifiers,
                   type_ix, visited, cur_dir, ins_ix, calls>>

\* lines 217-224
BackgroundPath(song, diff) ==
    IF song.bg # ""
    THEN P(background_root_path, song.bg, ".jpg")
    ELSE LET base_background_type == IF diff.ratingClass = 3 THEN "byd" ELSE "base"
             base_background_name == IF song.side = 0 THEN "light" ELSE "conflict"
         IN P(background_root_path,
              base_background_type \o "_" \o base_background_name, ".jpg")

ChartPath(song, diff) ==
    P(charts_root_path \o <<OriginalId(song)>>, ToString(diff.ratingClass), ".aff")

\* lines 195-216 and 231
Chart(song, diff) ==
    [ChartPath |-> Name(ChartPath(song, diff)),
     AudioPath |-> "base.ogg",
     JacketPath |-> "base.jpg",
     Difficulty |-> PyIndex(DIFFICULTY_NAMES, diff.ratingClass) \o " "
                    \o ToString(diff.rating),
     DifficultyColor |-> PyIndex(DIFFICULTY_COLORS, diff.ratingClass),
     Skin |-> IF song.side \in {0, 1}
              THEN <<[Side |-> IF song.side = 0 THEN "light" ELSE "conflict"]>>
              ELSE <<>>,
     BackgroundPath |-> Name(BackgroundPath(song, diff))]

\* whether the difficulty tables can be indexed by this rating class
RatingClassIndexable(ratingClass) == PyInRange(DIFFICULTY_NAMES, ratingClass)

ConvertDifficulty ==
    /\ pc = "songs"
    /\ diff_ix >= 1
    /\ diff_ix <= Len(CurrentSong.difficulties)
    /\ LET song == CurrentSong
           diff == song.difficulties[diff_ix]
           root == SongRootPath(song)
           chart_path == ChartPath(song, diff)
           with_chart == WriteFile(final, Into(root, chart_path), staged[chart_path])
           background_path == BackgroundPath(song, diff)
           copy_background == ~Exists(with_chart, Into(root, background_path))
       IN
       IF ~Exists(staged, chart_path)
       THEN Abort("FileNotFoundError")
            /\ UNCHANGED <<final, charts, background_paths, diff_ix>>
       ELSE IF ~RatingClassIndexable(diff.ratingClass)
       THEN Abort("IndexError")
            /\ final' = with_chart
            /\ UNCHANGED <<charts, background_paths, diff_ix>>
       ELSE IF copy_background /\ ~Exists(staged, background_path)
       THEN Abort("FileNotFoundError")
            /\ final' = with_chart
            /\ UNCHANGED <<charts, background_paths, diff_ix>>
       ELSE /\ final' = IF copy_background
                        THEN WriteFile(with_chart, Into(root, background_path),
                                       staged[background_path])
                        ELSE with_chart
            /\ background_paths' = IF copy_background
                                   THEN Append(background_paths, background_path)
                                   ELSE background_paths
            /\ charts' = Append(charts, Chart(song, diff))
            /\ diff_ix' = diff_ix + 1
            /\ UNCHANGED <<pc, abort_reason>>
    /\ UNCHANGED <<env, staged, dirs, pack_list, pack_ix, song_list,
                   packlist_doc, song_ix, level_count, pack_count, i,
                   converted_songs, converted_packs, converted_files,
                   level_identifiers, type_ix, visited, cur_dir, ins_ix, calls>>

MapName(paths) == [k \in 1..Len(paths) |-> Name(paths[k])]
MapChartPath(cs) == [k \in 1..Len(cs) |-> cs[k].ChartPath]

\* lines 237-242
FileReferences(backgrounds, cs) ==
    <<"base.ogg", "base.jpg">> \o MapName(backgrounds) \o MapChartPath(cs)

\* lines 179-186 and 233-242
ConvertedSong(id, song, backgrounds, cs) ==
    [_id |-> id,
     Type |-> "Level",
     Identifier |-> SongNewId(song),
     IsDefaultAsset |-> TRUE,
     Version |-> 0,
     Settings |-> [Charts |-> cs, LastOpenedChartPath |-> cs[Len(cs)].ChartPath],
     FileReferences |-> FileReferences(backgrounds, cs)]

\* lines 244-246
AddLevelIdentifier(index, key, new_id) ==
    IF key \in DOMAIN index
    THEN [index EXCEPT ![key] = Append(@, new_id)]
    ELSE [k \in DOMAIN index \cup {key} |->
              IF k = key THEN <<new_id>> ELSE index[k]]

SongEnd ==
    /\ pc = "songs"
    /\ diff_ix >= 1
    /\ diff_ix > Len(CurrentSong.difficulties)
    /\ IF charts = <<>>
       THEN Abort("IndexError")
            /\ UNCHANGED <<converted_songs, level_identifiers, i, song_ix, diff_ix>>
       ELSE /\ converted_songs' =
                   Append(converted_songs,
                          ConvertedSong(i, CurrentSong, background_paths, charts))
            /\ level_identifiers' =
                   AddLevelIdentifier(level_identifiers, CurrentSong.set,
                                      SongNewId(CurrentSong))
            /\ i' = i + 1
            /\ song_ix' = song_ix + 1
            /\ diff_ix' = 0
            /\ UNCHANGED <<pc, abort_reason>>
    /\ UNCHANGED <<env, staged, final, dirs, pack_list, pack_ix, song_list,
                   packlist_doc, level_count, pack_count, charts,
                   background_paths, converted_packs, converted_files,
                   type_ix, visited, cur_dir, ins_ix, calls>>

-----------------------------------------------------------------------------
(* Lines 249-285: packs *)

BeginPacks ==
    /\ pc = "songs"
    /\ diff_ix = 0
    /\ song_ix > Len(song_list.songs)
    /\ calls' = Append(calls, Call(<<"PackCount">>, 0))
    /\ IF ~CountParses("PackCount")
       THEN Abort("ValueError")
            /\ UNCHANGED <<pack_count, packlist_doc, i, pack_ix>>
       ELSE IF ~Exists(staged, pack_list_path)
       THEN Abort("FileNotFoundError")
            /\ pack_count' = env.db.packs
            /\ UNCHANGED <<packlist_doc, i, pack_ix>>
       ELSE /\ pack_count' = env.db.packs
            /\ packlist_doc' = env.packlist
            /\ i' = FirstId(env.db.packs)
            /\ pack_ix' = 1
            /\ pc' = "packs"
            /\ UNCHANGED abort_reason
    /\ UNCHANGED <<env, staged, final, dirs, pack_list, song_list, song_ix,
                   diff_ix, level_count, charts, background_paths,
                   converted_songs, converted_packs, converted_files,
                   level_identifiers, type_ix, visited, cur_dir, ins_ix>>

\* line 261
PackNewId(pack) == IF pack.pack_parent # <<>> THEN pack.pack_parent[1] ELSE pack.id

\* lines 264-266
PackCoverPath(pack) ==
    IF PackNewId(pack) = "single"
    THEN singles_cover_path
    ELSE P(pack_cover_root_path, "select_" \o PackNewId(pack), ".png")

\* the lookup keyed by the resolved identifier instead of the pack's own id
LevelIdentifiersKeyIsNewId(pack) == PackNewId(pack)

\* line 277: the key of the level_identifiers lookup
LevelIdentifiersKey(pack) == pack.id

\* lines 272-283
ConvertedPack(id, pack, index) ==
    [_id |-> id,
     Type |-> "Pack",
     PackName |-> pack.name,
     ImagePath |-> Name(PackCoverPath(pack)),
     LevelIdentifiers |-> index[LevelIdentifiersKey(pack)],
     Identifier |-> PackNewId(pack),
     Version |-> 0,
     FileReferences |-> <<Name(PackCoverPath(pack))>>,
     IsDefaultAsset |-> TRUE]

ConvertPack ==
    /\ pc = "packs"
    /\ pack_ix <= Len(packlist_doc.packs)
    /\ LET pack == packlist_doc.packs[pack_ix]
           new_id == PackNewId(pack)
           pack_cover_path == PackCoverPath(pack)
           copied == IF new_id = "single" THEN final
                     ELSE WriteFile(final, Into(<<"Pack", new_id>>, pack_cover_path),
                                    staged[pack_cover_path])
       IN
       /\ dirs' = dirs \cup {"Pack"}
       /\ IF new_id # "single" /\ ~Exists(staged, pack_cover_path)
          THEN Abort("FileNotFoundError")
               /\ UNCHANGED <<final, converted_packs, i, pack_ix>>
          ELSE IF LevelIdentifiersKey(pack) \notin DOMAIN level_identifiers
          THEN Abort("KeyError")
               /\ final' = copied
               /\ UNCHANGED <<converted_packs, i, pack_ix>>
          ELSE /\ final' = copied
               /\ converted_packs' =
                      Append(converted_packs, ConvertedPack(i, pack, level_identifiers))
               /\ i' = i + 1
               /\ pack_ix' = pack_ix + 1
               /\ UNCHANGED <<pc, abort_reason>>
    /\ UNCHANGED <<env, staged, pack_list, song_list, packlist_doc, song_ix,
                   diff_ix, level_count, pack_count, charts, background_paths,
                   converted_songs, converted_files, level_identifiers,
                   type_ix, visited, cur_dir, ins_ix, calls>>

-----------------------------------------------------------------------------
(* Lines 287-305: move files into storage *)

BeginMove ==
    /\ pc = "packs"
    /\ pack_ix > Len(packlist_doc.packs)
    /\ pc' = "move"
    /\ type_ix' = 1
    /\ visited' = {}
    /\ cur_dir' = <<>>
    /\ UNCHANGED <<abort_reason, env, staged, final, dirs, pack_list, pack_ix,
                   song_list, packlist_doc, song_ix, diff_ix, level_count,
                   pack_count, i, charts, background_paths, converted_songs,
                   converted_packs, converted_files, level_identifiers,
                   ins_ix, calls>>

Under(tree, type_name) ==
    {f \in DOMAIN tree : f.dir # <<>> /\ f.dir[1] = type_name}

\* files of the current type the glob has still to yield
Pending == Under(final, TYPE_NAMES[type_ix]) \ {v.file : v \in visited}

\* the glob lists one directory after the other, each in any order
GlobNext ==
    IF \E f \in Pending : f.dir = cur_dir
    THEN {f \in Pending : f.dir = cur_dir}
    ELSE Pending

\* a storage name taken from the file's name instead of its bytes
FileHashPathFromName(file, bytes) == P(storage_root_path, file.stem, file.suffix)

\* line 297
FileHashPath(file, bytes) == P(storage_root_path, Sha1Hex(bytes), file.suffix)

\* a File record keyed by the bare file name instead of the relative path
CatalogFileKeyedByName(file, file_hash_path) ==
    [_id |-> Name(file),
     RealPath |-> Name(file_hash_path),
     CorrectHashPath |-> Name(file_hash_path)]

\* lines 300-304
CatalogFile(file, file_hash_path) ==
    [_id |-> AsPosix(file),
     RealPath |-> Name(file_hash_path),
     CorrectHashPath |-> Name(file_hash_path)]

\* lines 298-299: file.rename unless the hash-named file is there already
StoreFile(tree, file, file_hash_path) ==
    IF Exists(tree, file_hash_path)
    THEN tree
    ELSE RemoveFiles(WriteFile(tree, file_hash_path, tree[file]), {file})

MoveFile ==
    /\ pc = "move"
    /\ \E file \in GlobNext :
           LET file_hash_path == FileHashPath(file, final[file]) IN
           /\ final' = StoreFile(final, file, file_hash_path)
           /\ converted_files' =
                  Append(converted_files, CatalogFile(file, file_hash_path))
           /\ visited' = visited \cup {[file |-> file, bytes |-> final[file]]}
           /\ cur_dir' = file.dir
    /\ UNCHANGED <<pc, abort_reason, env, staged, dirs, pack_list, pack_ix,
                   song_list, packlist_doc, song_ix, diff_ix, level_count,
                   pack_count, i, charts, background_paths, converted_songs,
                   converted_packs, level_identifiers, type_ix, ins_ix, calls>>

\* line 305, and the step to the next type or to the database update
RemoveTree ==
    /\ pc = "move"
    /\ Pending = {}
    /\ IF TYPE_NAMES[type_ix] \notin dirs
       THEN Abort("FileNotFoundError")
            /\ UNCHANGED <<final, dirs, type_ix, visited, cur_dir, ins_ix>>
       ELSE /\ final' = RemoveFiles(final, Under(final, TYPE_NAMES[type_ix]))
            /\ dirs' = dirs \ {TYPE_NAMES[type_ix]}
            /\ cur_dir' = <<>>
            /\ UNCHANGED visited
            /\ UNCHANGED abort_reason
            /\ IF type_ix < Len(TYPE_NAMES)
               THEN type_ix' = type_ix + 1 /\ UNCHANGED <<pc, ins_ix>>
               ELSE pc' = "insert_levels" /\ ins_ix' = 1 /\ UNCHANGED type_ix
    /\ UNCHANGED <<env, staged, pack_list, pack_ix, song_list, packlist_doc,
                   song_ix, diff_ix, level_count, pack_count, i, charts,
                   background_paths, converted_songs, converted_packs,
                   converted_files, level_identifiers, calls>>

-----------------------------------------------------------------------------
(* Lines 307-329: update database *)

\* the files loop moved ahead of the packs loop
INSERT_STAGES_FilesFirst == <<"insert_levels", "insert_files", "insert_packs">>

\* the three insertion loops, in script order
INSERT_STAGES == <<"insert_levels", "insert_packs", "insert_files">>

StageOf(stage) == CHOOSE k \in 1..Len(INSERT_STAGES) : INSERT_STAGES[k] = stage

StageSubcommand(stage) ==
    CASE stage = "insert_levels" -> "AddLevel"
      [] stage = "insert_packs" -> "AddPack"
      [] stage = "insert_files" -> "AddFile"

StageRecords(stage) ==
    CASE stage = "insert_levels" -> converted_songs
      [] stage = "insert_packs" -> converted_packs
      [] stage = "insert_files" -> converted_files

InsertFrame ==
    UNCHANGED <<abort_reason, env, staged, final, dirs, pack_list, pack_ix,
                song_list, packlist_doc, song_ix, diff_ix, level_count,
                pack_count, i, charts, background_paths, converted_songs,
                converted_packs, converted_files, level_identifiers, type_ix,
                visited, cur_dir>>

Insert(stage) ==
    /\ pc = stage
    /\ ins_ix <= Len(StageRecords(stage))
    /\ Subcommand(StageSubcommand(stage), StageRecords(stage)[ins_ix])
    /\ ins_ix' = ins_ix + 1
    /\ UNCHANGED pc
    /\ InsertFrame

InsertLevel == Insert("insert_levels")
InsertPack == Insert("insert_packs")
InsertFile == Insert("insert_files")

\* the end of one insertion loop
NextStage ==
    /\ pc \in {"insert_levels", "insert_packs", "insert_files"}
    /\ ins_ix > Len(StageRecords(pc))
    /\ pc' = IF StageOf(pc) < Len(INSERT_STAGES)
             THEN INSERT_STAGES[StageOf(pc) + 1]
             ELSE "done"
    /\ ins_ix' = 1
    /\ UNCHANGED calls
    /\ InsertFrame

-----------------------------------------------------------------------------
(* Line 329 *)

Done == pc = "done"
Aborted == pc = "aborted"

-----------------------------------------------------------------------------
(* The explored inputs: what the command line, the disk and the database   *)
(* hold when the script starts.                                            *)

File(p, bytes) == [p |-> p, bytes |-> bytes]

Tree(files) ==
    [q \in {f.p : f \in files} |-> (CHOOSE f \in files : f.p = q).bytes]

\* a staged tree as an earlier extraction leaves it
SongAssets(dir, audio, jacket) ==
    {File(P(audio_root_path \o <<dir>>, "base", ".ogg"), audio),
     File(P(jacket_root_path \o <<dir>>, "base", ".jpg"), jacket)}

ChartAsset(dir, ratingClass, bytes) ==
    File(P(charts_root_path \o <<dir>>, ToString(ratingClass), ".aff"), bytes)

FullStaged ==
    Tree(SongAssets("s1", <<0, 1>>, <<0, 1>>)
         \cup SongAssets("dl_s1", <<1, 1>>, <<0, 1>>)
         \cup SongAssets("s2", <<0, 1>>, <<1, 0>>)
         \cup {ChartAsset("s1", 0, <<1>>), ChartAsset("s1", 3, <<1>>),
               ChartAsset("s1", -1, <<0>>), ChartAsset("s1", 4, <<0, 0>>),
               ChartAsset("dl_s1", 0, <<1, 0, 0>>),
               ChartAsset("s2", 0, <<1>>),
               File(P(background_root_path, "base_light", ".jpg"), <<0>>),
               File(P(background_root_path, "base_conflict", ".jpg"), <<1, 1>>),
               File(P(background_root_path, "byd_light", ".jpg"), <<0, 0, 1>>),
               File(P(background_root_path, "byd_conflict", ".jpg"), <<1, 1, 1>>),
               File(P(background_root_path, "bgk", ".jpg"), <<0>>),
               File(P(pack_cover_root_path, "select_p1", ".png"), <<1, 0, 1>>),
               File(P(pack_cover_root_path, "select_p2", ".png"), <<1, 0, 1>>),
               File(singles_cover_path, <<0, 1, 0>>),
               File(song_list_path, <<>>),
               File(pack_list_path, <<>>)})

Diff(ratingClass) == [ratingClass |-> ratingClass, rating |-> 7]

Song(id, set, remote_dl, side, bg, ratingClasses) ==
    [id |-> id, set |-> set, remote_dl |-> remote_dl, side |-> side, bg |-> bg,
     difficulties |-> [k \in 1..Len(ratingClasses) |-> Diff(ratingClasses[k])]]

PackRecord(id, pack_parent) ==
    [id |-> id, pack_parent |-> pack_parent, name |-> "name of " \o id]

Entry(dir, stem, suffix, offset, length) ==
    [OriginalFilename |-> P(dir, stem, suffix), Offset |-> offset, Length |-> length]

Group(name, entries) == [Name |-> name, OrderedEntries |-> entries]

PackFile(stem, bytes, index) == [stem |-> stem, bytes |-> bytes, index |-> index]

\* a.pack holds everything one song of one pack needs
PackA ==
    PackFile("a", <<0, 1, 1>>,
        <<[Groups |-> <<
            Group("Fallback", <<Entry(<<"songs", "s1">>, "base", ".ogg", 0, 2)>>),
            Group("jackets_large", <<Entry(<<"songs", "s1">>, "base", ".jpg", 0, 2)>>),
            Group("charts", <<Entry(<<"songs", "s1">>, "0", ".aff", 1, 1)>>),
            Group("not_audio", <<Entry(<<"img", "bg">>, "base_light", ".jpg", 0, 1)>>),
            Group("packs", <<Entry(<<"songs", "pack">>, "select_p1", ".png", 0, 3)>>),
            Group("not_audio_or_images",
                  <<Entry(<<"songs">>, "songlist", "", 0, 0),
                    Entry(<<"songs">>, "packlist", "", 0, 0)>>)>>]>>)

\* b.pack: no index, or one entry of any offset and length
PacksB ==
    {PackFile("b", <<1, 0, 1>>, <<>>)}
    \cup {PackFile("b", <<1, 0, 1>>,
              <<[Groups |-> <<Group("jackets_large",
                                    <<Entry(<<"songs", "s1">>, stem, ".jpg",
                                            offset, length)>>)>>]>>) :
            stem \in {"base", "other"},
            offset \in 0..MaxOffset, length \in 0..MaxLength}

Romfs == {{}, {PackA}} \cup {{PackA, b} : b \in PacksB} \cup {{b} : b \in PacksB}

Db(levels, packs, garbled, failing) ==
    [levels |-> levels, packs |-> packs, garbled |-> garbled, failing |-> failing]

Env(litedb_exists, romfs_exists, romfs, staged_exists, store, db_exists, db_input_exists, songlist, packlist, db) ==
    [litedb_exists |-> litedb_exists,
     romfs_exists |-> romfs_exists,
     romfs |-> romfs,
     staged_exists |-> staged_exists,
     staged |-> IF staged_exists THEN FullStaged ELSE EmptyTree,
     store |-> store,
     db_exists |-> db_exists,
     db_input_exists |-> db_input_exists,
     songlist |-> songlist,
     packlist |-> packlist,
     db |-> db]

OneSong == [songs |-> <<Song("s1", "p1", <<>>, 0, "", <<0>>)>>]
OnePack == [packs |-> <<PackRecord("p1", <<>>)>>]
QuietDb == Db(0, 0, {}, {})

\* a resumed run: no romfs, the staged tree of an earlier run
Resumed(store, songlist, packlist, db) ==
    Env(TRUE, FALSE, {}, TRUE, store, FALSE, TRUE, songlist, packlist, db)

\* presence of the tool, the romfs, the staged tree and the database files
EnvsFiles ==
    {Env(l, r, IF r THEN {PackA} ELSE {}, s, EmptyTree, d, di, OneSong, OnePack,
         QuietDb) : l \in BOOLEAN, r \in BOOLEAN, s \in BOOLEAN,
                    d \in BOOLEAN, di \in BOOLEAN}

\* pack files and indexes
EnvsRomfs ==
    {Env(TRUE, TRUE, romfs, s, EmptyTree, FALSE, TRUE, OneSong, OnePack, QuietDb) :
        romfs \in Romfs, s \in BOOLEAN}

RatingClasses == {-1, 0, 3, 4}

RatingClassLists ==
    {<<>>} \cup {<<a>> : a \in RatingClasses}
    \cup {<<a, b>> : a \in RatingClasses, b \in RatingClasses \ {3}}
    \cup {<<0, 3>>}

SideAndBg ==
    {<<1, "">>, <<2, "">>, <<0, "bgk">>, <<1, "base">>, <<0, "nobg">>}

\* one song: side, background and difficulties
EnvsSong ==
    {Resumed(EmptyTree,
             [songs |-> <<Song("s1", "p1", <<>>, 0, "", rcs)>>],
             OnePack, QuietDb) : rcs \in RatingClassLists}
    \cup {Resumed(EmptyTree,
                  [songs |-> <<Song("s1", "p1", <<>>, sb[1], sb[2], rcs)>>],
                  OnePack, QuietDb) : sb \in SideAndBg, rcs \in {<<0>>, <<3>>}}
    \cup {Resumed(EmptyTree,
                  [songs |-> <<Song(id, "p1", <<dl>>, 0, "", <<0>>)>>],
                  OnePack, QuietDb) : id \in {"s1", "s2"}, dl \in BOOLEAN}

TwoSongs ==
    [songs |-> <<Song("s1", "p1", <<>>, 0, "", <<0>>),
                 Song("s2", "p2", <<>>, 0, "bgk", <<0>>)>>]

SongAndPackLists ==
    {<<[songs |-> <<>>], OnePack>>,
     <<[songs |-> <<>>], [packs |-> <<>>]>>,
     <<OneSong, [packs |-> <<>>]>>,
     <<OneSong, [packs |-> <<PackRecord("p9", <<"p1">>)>>]>>,
     <<OneSong, [packs |-> <<PackRecord("p1", <<>>), PackRecord("p1", <<>>)>>]>>,
     <<[songs |-> <<Song("s1", "single", <<>>, 0, "", <<0>>)>>],
       [packs |-> <<PackRecord("single", <<>>)>>]>>,
     <<[songs |-> <<Song("s1", "p1", <<>>, 0, "", <<0>>),
                    Song("s2", "p1", <<>>, 1, "", <<0>>)>>],
       [packs |-> <<PackRecord("p1", <<>>), PackRecord("p2", <<>>)>>]>>,
     <<TwoSongs, [packs |-> <<PackRecord("p2", <<"p1">>), PackRecord("p9", <<>>)>>]>>,
     <<TwoSongs, [packs |-> <<PackRecord("p1", <<>>), PackRecord("p2", <<"p1">>)>>]>>}

\* several songs and packs
EnvsLists ==
    {Resumed(EmptyTree, lists[1], lists[2], QuietDb) : lists \in SongAndPackLists}

\* two songs and two packs under every count; the third pack has no cover
EnvsCounts ==
    {Resumed(EmptyTree,
             [songs |-> <<Song("s1", "p1", <<>>, 0, "", <<0>>),
                          Song("s2", "p2", <<>>, 0, "", <<0>>)>>],
             [packs |-> <<PackRecord("p1", <<>>), PackRecord("p2", <<>>),
                          PackRecord("p9", <<>>)>>],
             Db(levels, packs, {}, {})) :
        levels \in 0..MaxCount, packs \in 0..MaxCount}

\* what the database answers
EnvsDb ==
    {Resumed(EmptyTree, OneSong, OnePack, Db(0, 0, {}, failing)) :
        failing \in SUBSET {"AddLevel", "AddPack", "AddFile"}}
    \cup {Resumed(EmptyTree, OneSong, OnePack, Db(0, 0, {query}, {})) :
            query \in {"LevelCount", "PackCount"}}

\* ./final/storage as an earlier run left it
Stores ==
    {Tree({File(FileHashPath(P(<<>>, "x", suffix), bytes), bytes)}) :
        suffix \in {".ogg", ".jpg"}, bytes \in {<<0, 1>>, <<0>>}}

EnvsStore ==
    {Resumed(store, OneSong, OnePack, QuietDb) : store \in Stores}

Envs == EnvsFiles \cup EnvsRomfs \cup EnvsSong \cup EnvsLists \cup EnvsCounts
        \cup EnvsDb \cup EnvsStore

-----------------------------------------------------------------------------

Init ==
    /\ env \in Envs
    /\ pc = "start"
    /\ abort_reason = ""
    /\ staged = env.staged
    /\ final = env.store
    /\ dirs = {}
    /\ pack_list = <<>>
    /\ pack_ix = 1
    /\ song_list = [songs |-> <<>>]
    /\ packlist_doc = [packs |-> <<>>]
    /\ song_ix = 1
    /\ diff_ix = 0
    /\ level_count = 0
    /\ pack_count = 0
    /\ i = 0
    /\ charts = <<>>
    /\ background_paths = <<>>
    /\ converted_songs = <<>>
    /\ converted_packs = <<>>
    /\ converted_files = <<>>
    /\ level_identifiers = [k \in {} |-> <<>>]
    /\ type_ix = 1
    /\ visited = {}
    /\ cur_dir = <<>>
    /\ ins_ix = 1
    /\ calls = <<>>

Next ==
    \/ Prepare
    \/ ExtractPack
    \/ BeginSongs
    \/ SongBegin
    \/ ConvertDifficulty
    \/ SongEnd
    \/ BeginPacks
    \/ ConvertPack
    \/ BeginMove
    \/ MoveFile
    \/ RemoveTree
    \/ InsertLevel
    \/ InsertPack
    \/ InsertFile
    \/ NextStage

Spec == Init /\ [][Next]_vars

-----------------------------------------------------------------------------
(* Reading the state: the calls made, the storage directory *)

Range(seq) == {seq[k] : k \in 1..Len(seq)}

Subcommands == <<"AddLevel", "AddPack", "AddFile">>

IsInsertion(call) == call.args[1] \in Range(Subcommands)

InsertionCalls == SelectSeq(calls, IsInsertion)

CallsOf(cmd) == SelectSeq(calls, LAMBDA call : call.args[1] = cmd)

\* the records handed to one subcommand, in call order
Emitted(cmd) == [k \in 1..Len(CallsOf(cmd)) |-> CallsOf(cmd)[k].args[2]]

Rank(call) == CHOOSE k \in 1..Len(Subcommands) : Subcommands[k] = call.args[1]

Stored == Under(final, "storage")

StoredNames == {Name(f) : f \in Stored}

IsPrefix(short, long) ==
    /\ Len(short) <= Len(long)
    /\ \A k \in 1..Len(short) : short[k] = long[k]

-----------------------------------------------------------------------------
(* C1 *)

-----------------------------------------------------------------------------
(* C2 *)

\* C2: among the insertion calls every AddLevel comes before every AddPack
\* and every AddPack before every AddFile; no record is handed over twice or
\* out of list order, and when the run is done every converted song, pack
\* and file has been handed over by exactly one call.
C2_InsertionOrder ==
    /\ LET insertions == InsertionCalls
       IN \A j, k \in 1..Len(insertions) :
              j < k => Rank(insertions[j]) <= Rank(insertions[k])
    /\ IsPrefix(Emitted("AddLevel"), converted_songs)
    /\ IsPrefix(Emitted("AddPack"), converted_packs)
    /\ IsPrefix(Emitted("AddFile"), converted_files)
    /\ Done => /\ Emitted("AddLevel") = converted_songs
               /\ Emitted("AddPack") = converted_packs
               /\ Emitted("AddFile") = converted_files

\* a completed run with several records of each kind
C2_Witness ==
    /\ Done
    /\ Len(Emitted("AddLevel")) >= 2
    /\ Len(Emitted("AddPack")) >= 2
    /\ Len(Emitted("AddFile")) >= 2

-----------------------------------------------------------------------------
(* C3 *)

\* the File record of a file the glob has yielded
RecordOf(v) == CHOOSE r \in Range(converted_files) : r._id = AsPosix(v.file)

\* C3 as stated: two working-directory files with the same bytes get the
\* same stored name whatever their names and extensions, and storage holds
\* at most one file per byte content.
C3_SameContentSameStoredName ==
    /\ \A v, w \in visited :
           v.bytes = w.bytes => RecordOf(v).RealPath = RecordOf(w).RealPath
    /\ \A f, g \in Stored : final[f] = final[g] => f = g

\* C3 as amended: two working-directory files with the same bytes and the
\* same extension get the same stored name whatever their names, and storage
\* holds at most one file per pair of byte content and extension.
C3_SameContentAndSuffixSameStoredName ==
    /\ \A v, w \in visited :
           v.bytes = w.bytes /\ v.file.suffix = w.file.suffix
               => RecordOf(v).RealPath = RecordOf(w).RealPath
    /\ \A f, g \in Under(final, "storage") :
           final[f] = final[g] /\ f.suffix = g.suffix => f = g

\* two files of different names, same bytes and same extension were stored
C3_Witness ==
    \E v, w \in visited :
        /\ Name(v.file) # Name(w.file)
        /\ v.bytes = w.bytes
        /\ v.file.suffix = w.file.suffix

-----------------------------------------------------------------------------
(* C4 *)

\* the "<set>.<id>" of the songs of one set, in song-list order
LevelsOfSet(set) ==
    LET songs == SelectSeq(song_list.songs, LAMBDA song : song.set = set)
    IN [k \in 1..Len(songs) |-> songs[k].set \o "." \o songs[k].id]

\* C4: the k-th Pack record comes from the k-th pack-list entry, and its
\* LevelIdentifiers is the list of "<set>.<id>" of the songs whose set is
\* that entry's own id, in song-list order, also when the entry has a
\* pack_parent.
C4_LevelIdentifiersByOwnId ==
    \A k \in 1..Len(converted_packs) :
        converted_packs[k].LevelIdentifiers = LevelsOfSet(packlist_doc.packs[k].id)

\* a Pack record was built from an entry that has a pack_parent
C4_Witness ==
    \E k \in 1..Len(converted_packs) :
        /\ packlist_doc.packs[k].pack_parent # <<>>
        /\ converted_packs[k].Identifier # packlist_doc.packs[k].id
        /\ converted_packs[k].LevelIdentifiers # <<>>

-----------------------------------------------------------------------------
(* C5 *)

\* C5: the k-th Level record has id LevelCount + k and the k-th Pack record
\* has id PackCount + k, and LevelCount and PackCount are each asked at most
\* once in a run.
C5_IdsFollowCounts ==
    /\ \A k \in 1..Len(converted_songs) : converted_songs[k]._id = env.db.levels + k
    /\ \A k \in 1..Len(converted_packs) : converted_packs[k]._id = env.db.packs + k
    /\ Len(CallsOf("LevelCount")) <= 1
    /\ Len(CallsOf("PackCount")) <= 1

\* two songs and two packs converted on a database that is not empty
C5_Witness ==
    /\ env.db.levels > 0
    /\ env.db.packs > 0
    /\ Len(converted_songs) >= 2
    /\ Len(converted_packs) >= 2

-----------------------------------------------------------------------------
(* C6 *)

\* C6: no two Pack records handed to AddPack in one run have the same
\* Identifier.
C6_PackIdentifiersDistinct ==
    LET packs == Emitted("AddPack")
    IN \A j, k \in 1..Len(packs) : j # k => packs[j].Identifier # packs[k].Identifier

-----------------------------------------------------------------------------
(* C7 *)

\* C7: an insertion call that ends with a non-zero status is the last call
\* of the run, and the run does not reach Done.
C7_FailFast ==
    \A k \in 1..Len(calls) :
        IsInsertion(calls[k]) /\ calls[k].returncode # 0
            => k = Len(calls) /\ ~Done

-----------------------------------------------------------------------------
(* C8 *)

ResumedRun == ~env.romfs_exists /\ env.staged_exists

\* C8: with no romfs and an extracted romfs already there, the run is not
\* stopped for the missing romfs, no pack is extracted and the staged tree
\* stays as it was, the extraction loop is over as soon as it is reached,
\* and when the tool and the database are there any abort comes no earlier
\* than the LevelCount query that opens the conversion.
C8_ResumeSkipsExtraction ==
    ResumedRun =>
        /\ abort_reason # "Input romfs not found"
        /\ pack_list = <<>>
        /\ staged = env.staged
        /\ pc = "extract" => pack_ix > Len(pack_list)
        /\ (env.litedb_exists /\ (env.db_exists \/ env.db_input_exists) /\ Aborted)
               => calls # <<>>

\* a resumed run that reached the song conversion
C8_Witness == ResumedRun /\ pc = "songs" /\ song_ix = 1

-----------------------------------------------------------------------------
(* C9 *)

\* positions <<pack, group, entry>> of the index entries, in extraction order
EntryPositions ==
    UNION {UNION {{<<a, b, c>> :
                      c \in 1..Len(pack_list[a].index[1].Groups[b].OrderedEntries)} :
                  b \in 1..Len(pack_list[a].index[1].Groups)} :
           a \in {a \in 1..Len(pack_list) : pack_list[a].index # <<>>}}

EntryAt(x) == pack_list[x[1]].index[1].Groups[x[2]].OrderedEntries[x[3]]
GroupAt(x) == pack_list[x[1]].index[1].Groups[x[2]]
PathAt(x) == EntryPath(GroupAt(x), EntryAt(x))

Before(x, y) ==
    \/ x[1] < y[1]
    \/ x[1] = y[1] /\ x[2] < y[2]
    \/ x[1] = y[1] /\ x[2] = y[2] /\ x[3] < y[3]

PastExtraction ==
    /\ pc \notin {"start", "extract"}
    /\ Aborted => calls # <<>>

\* C9: a run that gets past extraction had no entry with Offset + Length
\* beyond the pack's length, and every entry's file, unless a later entry
\* wrote the same path, has Length bytes equal to pack[Offset:Offset+Length].
C9_OutOfRangeEntryAborts ==
    PastExtraction =>
        \A x \in EntryPositions :
            /\ EntryAt(x).Offset + EntryAt(x).Length <= Len(pack_list[x[1]].bytes)
            /\ (\A y \in EntryPositions : Before(x, y) => PathAt(y) # PathAt(x))
                   => /\ Len(staged[PathAt(x)]) = EntryAt(x).Length
                      /\ staged[PathAt(x)] =
                             SubSeq(pack_list[x[1]].bytes, EntryAt(x).Offset + 1,
                                    EntryAt(x).Offset + EntryAt(x).Length)

-----------------------------------------------------------------------------
(* C10 *)

ValidRatingClass(ratingClass) == ratingClass \in 0..3

HasInvalidRatingClass(songlist) ==
    \E song \in Range(songlist.songs) :
        \E diff \in Range(song.difficulties) : ~ValidRatingClass(diff.ratingClass)

\* C10: no Chart entry is built for a difficulty whose ratingClass is not
\* one of 0, 1, 2, 3, no song with such a difficulty is converted, and a run
\* whose song list has such a difficulty makes no insertion call.
C10_InvalidRatingClassAborts ==
    /\ (pc = "songs" /\ diff_ix >= 1) =>
           \A d \in 1..Len(charts) :
               ValidRatingClass(CurrentSong.difficulties[d].ratingClass)
    /\ \A k \in 1..Len(converted_songs) :
           \A diff \in Range(song_list.songs[k].difficulties) :
               ValidRatingClass(diff.ratingClass)
    /\ HasInvalidRatingClass(env.songlist) => InsertionCalls = <<>> /\ ~Done

====
